---- MODULE Spec2Model ----
(***************************************************************************)
(* Model of operator-recovery (src/index.ts): the paginated retrieval of   *)
(* slashing events, the reimbursement calculation for one slashing event   *)
(* and the sequential main loop that prints the reimbursements.            *)
(*                                                                         *)
(* Amounts are bignumber.js values.  A BigNumber is modelled as a record   *)
(* [k, v]: k = "num" with v the value multiplied by Scale (a decimal with  *)
(* DECIMAL_PLACES digits after the point), k = "inf" for Infinity,         *)
(* k = "-inf" for -Infinity and k = "nan" for NaN.  All inputs are         *)
(* non-negative integers, so only a subtraction can give a negative value. *)
(* bignumber.js rounds the result of div() to 20 decimal places, half up;  *)
(* the model keeps DECIMAL_PLACES digits so that every intermediate value  *)
(* stays within 32-bit integers.  The operator identifier of an event and  *)
(* the block number are not modelled: the answers of the block query and   *)
(* of the operator query are inputs of each step.                          *)
(***************************************************************************)
EXTENDS Integers, Sequences, FiniteSets

\* ------------------------------------------------------------------ bounds
\* digits kept after the decimal point by div() (20 in bignumber.js)
DECIMAL_PLACES == 2
\* logical delegator identifiers are 1..MaxDelegations
MaxDelegations == 3
\* page size of the slashingEvents query (1000 in the source, scaled down)
PAGE_SIZE == 2
\* the event source holds at most MaxEvents events, dated 1..MaxDate
MaxEvents == 4
MaxDate == 3

\* tolerance of the sanity check, in wei
RoundingTolerance == 10000

RECURSIVE Pow10(_)
Pow10(n) == IF n = 0 THEN 1 ELSE 10 * Pow10(n - 1)
Scale == Pow10(DECIMAL_PLACES)

\* ------------------------------------------------------------ bignumber.js
NaN == [k |-> "nan", v |-> 0]
Infinity == [k |-> "inf", v |-> 0]
MinusInfinity == [k |-> "-inf", v |-> 0]
\* new BigNumber(<decimal string of a non-negative integer>)
BN(n) == [k |-> "num", v |-> n * Scale]
IsNum(x) == x.k = "num"
IsZero(x) == x.k = "num" /\ x.v = 0

\* x / y for scaled non-negative integers xv, yv (yv > 0), rounded half up to
\* DECIMAL_PLACES digits; the result is scaled again
RoundedQuotient(xv, yv) ==
    LET q == xv \div yv
        r == xv % yv
        num == r * Scale
        f == num \div yv
        rest == num % yv
    IN  q * Scale + f + (IF 2 * rest >= yv THEN 1 ELSE 0)

\* BigNumber.prototype.div / dividedBy (DECIMAL_PLACES, ROUND_HALF_UP), for
\* the operands of lines 158, 159 and 195, none of which is negative
div(x, y) ==
    IF x.k = "nan" \/ y.k = "nan" THEN NaN
    ELSE IF x.k = "inf" /\ y.k = "inf" THEN NaN
    ELSE IF IsZero(x) /\ IsZero(y) THEN NaN
    ELSE IF x.k = "inf" \/ IsZero(y) THEN Infinity
    ELSE IF IsZero(x) \/ y.k = "inf" THEN BN(0)
    ELSE [k |-> "num", v |-> RoundedQuotient(x.v, y.v)]

\* x.dividedToIntegerBy(1): the integer part, truncated toward zero
dividedToIntegerBy1(x) ==
    IF x.k # "num" THEN x
    ELSE IF x.v >= 0 THEN [k |-> "num", v |-> (x.v \div Scale) * Scale]
    ELSE [k |-> "num", v |-> 0 - (((0 - x.v) \div Scale) * Scale)]

\* BigNumber.prototype.multipliedBy: exact; one finite operand is an integer
\* and no operand is -Infinity (lines 182 and 196)
multipliedBy(x, y) ==
    IF x.k = "nan" \/ y.k = "nan" THEN NaN
    ELSE IF (x.k = "inf" /\ IsZero(y)) \/ (y.k = "inf" /\ IsZero(x)) THEN NaN
    ELSE IF x.k = "inf" \/ y.k = "inf" THEN Infinity
    ELSE IF y.v % Scale = 0 THEN [k |-> "num", v |-> x.v * (y.v \div Scale)]
    ELSE [k |-> "num", v |-> (x.v \div Scale) * y.v]

\* BigNumber.prototype.minus
minus(x, y) ==
    IF x.k = "nan" \/ y.k = "nan" THEN NaN
    ELSE IF x.k # "num" /\ x.k = y.k THEN NaN
    ELSE IF x.k # "num" THEN x
    ELSE IF y.k = "inf" THEN MinusInfinity
    ELSE IF y.k = "-inf" THEN Infinity
    ELSE [k |-> "num", v |-> x.v - y.v]

\* BigNumber.prototype.plus
plus(x, y) ==
    IF x.k = "nan" \/ y.k = "nan" THEN NaN
    ELSE IF x.k # "num" /\ y.k # "num" /\ x.k # y.k THEN NaN
    ELSE IF x.k # "num" THEN x
    ELSE IF y.k # "num" THEN y
    ELSE [k |-> "num", v |-> x.v + y.v]

\* BigNumber.prototype.abs
abs(x) ==
    IF x.k = "-inf" THEN Infinity
    ELSE IF x.k = "num" /\ x.v < 0 THEN [k |-> "num", v |-> 0 - x.v]
    ELSE x

\* BigNumber.prototype.gte: false whenever an operand is NaN
gte(x, y) ==
    IF x.k = "nan" \/ y.k = "nan" THEN FALSE
    ELSE IF x.k = "inf" \/ y.k = "-inf" THEN TRUE
    ELSE IF y.k = "inf" \/ x.k = "-inf" THEN FALSE
    ELSE x.v >= y.v

\* BigNumber.prototype.gt: false whenever an operand is NaN
gt(x, y) ==
    IF x.k = "nan" \/ y.k = "nan" THEN FALSE
    ELSE IF y.k = "inf" \/ x.k = "-inf" THEN FALSE
    ELSE IF x.k = "inf" \/ y.k = "-inf" THEN TRUE
    ELSE x.v > y.v

\* ------------------------------------------------- calculateReimbursements
\* the value of data.operator when no operator exists at the block
NoOperator == [found |-> FALSE]

\* mutant: a missing owner delegation defaults to the first delegation
FindOwner_DefaultFirst(delegations, owner) ==
    LET hits == { i \in 1 .. Len(delegations) : delegations[i].id = owner }
    IN  IF hits = {} THEN 1 ELSE CHOOSE i \in hits : \A j \in hits : i <= j

\* Array.prototype.find on the delegations: the index of the first one of the
\* owner, or 0 (undefined)
FindOwner(delegations, owner) ==
    LET hits == { i \in 1 .. Len(delegations) : delegations[i].id = owner }
    IN  IF hits = {} THEN 0 ELSE CHOOSE i \in hits : \A j \in hits : i <= j

\* mutant: the owner's delegation is not filtered out
OtherDelegations_All(delegations, owner) == delegations

\* Array.prototype.filter: the delegations of everybody but the owner, in order
OtherDelegations(delegations, owner) ==
    SelectSeq(delegations, LAMBDA d : d.id # owner)

\* the loop body of lines 193-201, over the filtered delegations
RECURSIVE Shares(_, _, _, _)
Shares(others, i, remainingTokens, remainingData) ==
    IF i > Len(others) THEN << >>
    ELSE LET held == BN(others[i].balance)
             share == div(held, remainingTokens)
             shareDataWei == dividedToIntegerBy1(multipliedBy(share, remainingData))
         IN  << [recipient |-> others[i].id, amount |-> shareDataWei] >>
             \o Shares(others, i + 1, remainingTokens, remainingData)

\* reimbursements.forEach(... plus ...), starting from BigNumber(0)
RECURSIVE Total(_, _)
Total(reimbursements, i) ==
    IF i = 0 THEN BN(0)
    ELSE plus(Total(reimbursements, i - 1), reimbursements[i].amount)

\* insertion of one element by a.recipient.localeCompare(b.recipient);
\* identifiers are lower-case hexadecimal strings, modelled by their rank
RECURSIVE Insert(_, _)
Insert(sorted, e) ==
    IF sorted = << >> THEN << e >>
    ELSE IF e.recipient < Head(sorted).recipient THEN << e >> \o sorted
    ELSE << Head(sorted) >> \o Insert(Tail(sorted), e)

\* mutant: the list is returned in the order it was built
SortByRecipient_None(list) == list

\* Array.prototype.sort with the recipient comparator (stable)
RECURSIVE SortByRecipient(_)
SortByRecipient(list) ==
    IF list = << >> THEN << >>
    ELSE Insert(SortByRecipient(SubSeq(list, 1, Len(list) - 1)), list[Len(list)])

Failure(e) == [error |-> e, list |-> << >>]

slashedAmountInOperatorTokensWei(amount, operator) ==
    LET exchangeRate == div(BN(operator.valueWithoutEarnings),
                            BN(operator.operatorTokenTotalSupplyWei))
    IN  dividedToIntegerBy1(div(BN(amount), exchangeRate))

\* mutant: the owner absorbs the hit only when holding strictly more
BuildReimbursements_StrictAbsorb(amount, operator) ==
    LET slashed == BN(amount)
        total == BN(operator.operatorTokenTotalSupplyWei)
        exchangeRate == div(BN(operator.valueWithoutEarnings), total)
        inTokens == slashedAmountInOperatorTokensWei(amount, operator)
        ownerIdx == FindOwner(operator.delegations, operator.owner)
        ownerTokens == BN(operator.delegations[ownerIdx].balance)
    IN  IF gt(ownerTokens, inTokens)
        THEN << [recipient |-> operator.owner, amount |-> slashed] >>
        ELSE LET ownerSlashed == dividedToIntegerBy1(multipliedBy(ownerTokens, exchangeRate))
                 remainingData == minus(slashed, ownerSlashed)
                 remainingTokens == minus(total, ownerTokens)
             IN  << [recipient |-> operator.owner, amount |-> ownerSlashed] >>
                 \o Shares(OtherDelegations(operator.delegations, operator.owner), 1,
                           remainingTokens, remainingData)

\* lines 155-202: the list built before the sanity check
BuildReimbursements(amount, operator) ==
    LET slashed == BN(amount)
        total == BN(operator.operatorTokenTotalSupplyWei)
        exchangeRate == div(BN(operator.valueWithoutEarnings), total)
        inTokens == slashedAmountInOperatorTokensWei(amount, operator)
        ownerIdx == FindOwner(operator.delegations, operator.owner)
        ownerTokens == BN(operator.delegations[ownerIdx].balance)
    IN  IF gte(ownerTokens, inTokens)
        THEN << [recipient |-> operator.owner, amount |-> slashed] >>
        ELSE LET ownerSlashed == dividedToIntegerBy1(multipliedBy(ownerTokens, exchangeRate))
                 remainingData == minus(slashed, ownerSlashed)
                 remainingTokens == minus(total, ownerTokens)
             IN  << [recipient |-> operator.owner, amount |-> ownerSlashed] >>
                 \o Shares(OtherDelegations(operator.delegations, operator.owner), 1,
                           remainingTokens, remainingData)

\* lines 204-214: does the sanity check throw?
Mismatch(amount, reimbursements) ==
    gt(abs(minus(Total(reimbursements, Len(reimbursements)), BN(amount))),
       BN(RoundingTolerance))

\* calculateReimbursements(slashingEvent), given what the two queries answer:
\* nBlocks blocks for the event's timestamp and operator (or NoOperator)
calculateReimbursements(amount, nBlocks, operator) ==
    IF nBlocks # 1 THEN Failure("Unexpected blocks")
    ELSE IF ~operator.found THEN Failure("Operator not found")
    ELSE IF Len(operator.delegations) = 0 THEN Failure("Operator doesn't have delegations")
    ELSE IF FindOwner(operator.delegations, operator.owner) = 0
         THEN Failure("Owner's delegation not found")
    ELSE LET reimbursements == BuildReimbursements(amount, operator)
         IN  IF Mismatch(amount, reimbursements)
             THEN Failure("Reimbursements don't match slashed amount")
             ELSE [error |-> "none", list |-> SortByRecipient(reimbursements)]

\* ------------------------------------------------------------------ state
VARIABLES
    source,             \* the slashing events the subgraph holds, ascending by date
    timestampStartSec,  \* START_TIME
    timestampEndSec,    \* END_TIME
    minSlashingWei,     \* MIN_SLASHING_WEI
    pc,                 \* "paging", "main", "done", "failed" ("idle": no run)
    currentStart,       \* getSlashingEvents: lower bound of the next page request
    result,             \* getSlashingEvents: the pages concatenated so far
    requests,           \* the page requests issued so far, <<date_gte, date_lte>>
    slashingEvents,     \* main: what getSlashingEvents returned
    next,               \* main: index of the event the for loop handles next
    answers,            \* what the block and operator queries answered, per event
    out,                \* the lines written by console.log
    error,              \* the message of the Error that ended the run, or "none"
    callAmount,         \* one call of calculateReimbursements: slashingEvent.amount
    callBlocks,         \*   number of blocks the block query returns
    callOperator,       \*   data.operator of the operator query
    callState,          \*   "called", "returned" ("idle": no call)
    callResult          \*   the list returned, or the error thrown

vars == << source, timestampStartSec, timestampEndSec, minSlashingWei, pc,
           currentStart, result, requests, slashingEvents, next, answers, out,
           error, callAmount, callBlocks, callOperator, callState, callResult >>

runVars == << source, timestampStartSec, timestampEndSec, minSlashingWei, pc,
              currentStart, result, requests, slashingEvents, next, answers, out,
              error >>
callVars == << callAmount, callBlocks, callOperator, callState, callResult >>

\* ----------------------------------------------------------------- inputs
Ids == 1 .. MaxDelegations
Balances == {0, 300, 700}
SlashedAmounts == {0, 3, 1000, 30000}
\* <<operatorTokenTotalSupplyWei, valueWithoutEarnings>>
SupplyAndValue ==
    { <<0, 0>>, <<0, 1000>>, <<900, 700>>, <<900, 1000>>, <<1000, 0>>, <<1000, 1000>> }

RECURSIVE SumBalances(_, _)
SumBalances(delegations, i) ==
    IF i = 0 THEN 0 ELSE SumBalances(delegations, i - 1) + delegations[i].balance

DelegationRecords == [id : Ids, balance : Balances]

\* lists of delegations with pairwise distinct delegators that hold at most
\* totalSupply operator tokens together
DelegationLists(totalSupply) ==
    { d \in UNION { [1 .. n -> DelegationRecords] : n \in 0 .. MaxDelegations } :
        /\ \A i, j \in 1 .. Len(d) : i # j => d[i].id # d[j].id
        /\ SumBalances(d, Len(d)) <= totalSupply }

Operator(totalSupply, value, owner, delegations) ==
    [ found |-> TRUE,
      operatorTokenTotalSupplyWei |-> totalSupply,
      valueWithoutEarnings |-> value,
      owner |-> owner,
      delegations |-> delegations ]

Operators ==
    { Operator(sv[1], sv[2], o, d) :
        sv \in SupplyAndValue, o \in Ids, d \in DelegationLists(1000) }

ValidOperators ==
    { op \in Operators :
        SumBalances(op.delegations, Len(op.delegations)) <= op.operatorTokenTotalSupplyWei }

\* the answers of the two queries of one call
CallInputs ==
    { <<1, op>> : op \in ValidOperators \cup {NoOperator} }
    \cup { <<0, NoOperator>>, <<2, NoOperator>> }

NotCalled == [error |-> "not called", list |-> << >>]

\* ---------------------------------------- one call of calculateReimbursements
InitCall ==
    /\ callAmount \in SlashedAmounts
    /\ \E in \in CallInputs : callBlocks = in[1] /\ callOperator = in[2]
    /\ callState = "called"
    /\ callResult = NotCalled
    /\ source = << >> /\ timestampStartSec = 0 /\ timestampEndSec = 0
    /\ minSlashingWei = 0 /\ pc = "idle" /\ currentStart = 0
    /\ result = << >> /\ requests = << >> /\ slashingEvents = << >>
    /\ next = 1 /\ answers = << >> /\ out = << >> /\ error = "none"

CalculateReimbursements ==
    /\ callState = "called"
    /\ callResult' = calculateReimbursements(callAmount, callBlocks, callOperator)
    /\ callState' = "returned"
    /\ UNCHANGED << callAmount, callBlocks, callOperator >>
    /\ UNCHANGED runVars

NextCall == CalculateReimbursements

SpecCall == InitCall /\ [][NextCall]_vars

\* ------------------------------------------------------------ the whole run
EventAmounts == {1, 30000}
MinimumAmounts == {0, 2}

\* the subgraph's slashing events: ascending by date, identified by position;
\* the operator of an event is left to the answer of the operator query
Sources ==
    { [i \in 1 .. Len(f) |-> [id |-> i, date |-> f[i][1], amount |-> f[i][2]]] :
        f \in { g \in UNION { [1 .. n -> (1 .. MaxDate) \X EventAmounts] : n \in 0 .. MaxEvents } :
                  \A i \in 1 .. Len(g) - 1 : g[i][1] <= g[i + 1][1] } }

\* the operators the operator query answers with during a run
RunOperators ==
    { Operator(1000, 1000, 1, << [id |-> 1, balance |-> 700], [id |-> 2, balance |-> 300] >>),
      Operator(1000, 1000, 1, << [id |-> 2, balance |-> 300], [id |-> 1, balance |-> 0] >>),
      Operator(1000, 1000, 3, << [id |-> 1, balance |-> 700] >>),
      Operator(1000, 1000, 1, << >>) }

RunAnswers ==
    { [nBlocks |-> 1, operator |-> op] : op \in RunOperators \cup {NoOperator} }
    \cup { [nBlocks |-> n, operator |-> NoOperator] : n \in {0, 2} }

\* where: {date_gte, date_lte}, orderBy: date, orderDirection: asc
WindowEvents(timestampStart, timestampEnd) ==
    SelectSeq(source, LAMBDA e : e.date >= timestampStart /\ e.date <= timestampEnd)

\* mutant: the minimum is made part of the query's where clause
getSlashingEventsPage_MinFilter(timestampStart, timestampEnd) ==
    LET all == SelectSeq(WindowEvents(timestampStart, timestampEnd),
                         LAMBDA e : e.amount >= minSlashingWei)
    IN  IF Len(all) <= PAGE_SIZE THEN all ELSE SubSeq(all, 1, PAGE_SIZE)

\* getSlashingEventsPage: first: PAGE_SIZE of the events of the window
getSlashingEventsPage(timestampStart, timestampEnd) ==
    LET all == WindowEvents(timestampStart, timestampEnd)
    IN  IF Len(all) <= PAGE_SIZE THEN all ELSE SubSeq(all, 1, PAGE_SIZE)

\* mutant: a full page ends the loop too
exhausted_AtMost(pageResults) == Len(pageResults) <= PAGE_SIZE

\* the test that ends the loop of getSlashingEvents
exhausted(pageResults) == Len(pageResults) < PAGE_SIZE

\* the lower bound of the next page request
nextStart(pageResults) == pageResults[Len(pageResults)].date + 1

\* result.filter(... gte(min))
filterMinimum(events) ==
    SelectSeq(events, LAMBDA e : gte(BN(e.amount), BN(minSlashingWei)))

\* reimbursement.amount.toFixed(0) of an integer amount, NaN or Infinity
toFixed0(x) == IF x.k = "num" THEN [k |-> "num", v |-> x.v \div Scale] ELSE x

\* the lines console.log writes for one list; event is the event they belong to
Lines(event, list) ==
    [i \in 1 .. Len(list) |->
        [event |-> event, recipient |-> list[i].recipient, amount |-> toFixed0(list[i].amount)]]

Init ==
    /\ source \in Sources
    /\ timestampStartSec \in 1 .. 2
    /\ timestampEndSec \in (MaxDate - 1) .. MaxDate
    /\ minSlashingWei \in MinimumAmounts
    /\ pc = "paging"
    /\ currentStart = timestampStartSec
    /\ result = << >> /\ requests = << >> /\ slashingEvents = << >>
    /\ next = 1 /\ answers = << >> /\ out = << >> /\ error = "none"
    /\ callAmount = 0 /\ callBlocks = 0 /\ callOperator = NoOperator
    /\ callState = "idle" /\ callResult = NotCalled

\* one iteration of the while loop of getSlashingEvents; the last one also
\* filters, returns and enters the for loop of the main function
GetSlashingEventsIteration ==
    /\ pc = "paging"
    /\ LET pageResults == getSlashingEventsPage(currentStart, timestampEndSec)
           all == result \o pageResults
       IN  /\ requests' = Append(requests, << currentStart, timestampEndSec >>)
           /\ result' = all
           /\ IF exhausted(pageResults)
              THEN /\ slashingEvents' = filterMinimum(all)
                   /\ pc' = IF filterMinimum(all) = << >> THEN "done" ELSE "main"
                   /\ UNCHANGED currentStart
              ELSE /\ currentStart' = nextStart(pageResults)
                   /\ UNCHANGED << slashingEvents, pc >>
    /\ UNCHANGED << source, timestampStartSec, timestampEndSec, minSlashingWei,
                    next, answers, out, error >>
    /\ UNCHANGED callVars

\* mutant: an event whose pipeline throws is skipped and the loop goes on
MainIteration_SkipFailed ==
    /\ pc = "main"
    /\ \E answer \in RunAnswers :
          LET r == calculateReimbursements(slashingEvents[next].amount,
                                           answer.nBlocks, answer.operator)
          IN  /\ answers' = Append(answers, answer)
              /\ out' = out \o Lines(slashingEvents[next].id, r.list)
              /\ next' = next + 1
              /\ pc' = IF next = Len(slashingEvents) THEN "done" ELSE "main"
              /\ error' = IF r.error = "none" THEN error ELSE r.error
    /\ UNCHANGED << source, timestampStartSec, timestampEndSec, minSlashingWei,
                    currentStart, result, requests, slashingEvents >>
    /\ UNCHANGED callVars

\* one iteration of the for loop of the main function, for the answers the
\* block query and the operator query give
MainIteration ==
    /\ pc = "main"
    /\ \E answer \in RunAnswers :
          LET r == calculateReimbursements(slashingEvents[next].amount,
                                           answer.nBlocks, answer.operator)
          IN  /\ answers' = Append(answers, answer)
              /\ IF r.error = "none"
                 THEN /\ out' = out \o Lines(slashingEvents[next].id, r.list)
                      /\ next' = next + 1
                      /\ pc' = IF next = Len(slashingEvents) THEN "done" ELSE "main"
                      /\ UNCHANGED error
                 ELSE /\ error' = r.error
                      /\ pc' = "failed"
                      /\ UNCHANGED << out, next >>
    /\ UNCHANGED << source, timestampStartSec, timestampEndSec, minSlashingWei,
                    currentStart, result, requests, slashingEvents >>
    /\ UNCHANGED callVars

Next == GetSlashingEventsIteration \/ MainIteration

Spec == Init /\ [][Next]_vars

\* every promise the run awaits settles: the subgraph answers each query
FairSpec == Spec /\ WF_vars(Next)

\* ------------------------------------------- claims on calculateReimbursements
Returned == callState = "returned"
ReturnedList == Returned /\ callResult.error = "none"
Queried == callBlocks = 1 /\ callOperator.found

\* the delegations of the snapshot as the claims speak of them
OwnerListed == \E i \in 1 .. Len(callOperator.delegations) :
                   callOperator.delegations[i].id = callOperator.owner
OwnerBalance ==
    (CHOOSE d \in { callOperator.delegations[i] : i \in 1 .. Len(callOperator.delegations) } :
        d.id = callOperator.owner).balance
NonOwners == { callOperator.delegations[i] : i \in 1 .. Len(callOperator.delegations) }
                 \ { d \in DelegationRecords : d.id = callOperator.owner }
Entries(r) == { i \in 1 .. Len(callResult.list) : callResult.list[i].recipient = r }
AmountOf(r) == callResult.list[CHOOSE i \in Entries(r) : TRUE].amount
SlashedInTokens == slashedAmountInOperatorTokensWei(callAmount, callOperator)
Rate == div(BN(callOperator.valueWithoutEarnings), BN(callOperator.operatorTokenTotalSupplyWei))

\* the owner's balance is at least the slashed amount in operator tokens
FullCase == /\ Queried /\ OwnerListed
            /\ SlashedInTokens.k = "num"
            /\ OwnerBalance * Scale >= SlashedInTokens.v
\* the owner's balance is below the slashed amount in operator tokens
SharedCase == /\ Queried /\ OwnerListed
              /\ \/ SlashedInTokens.k = "inf"
                 \/ SlashedInTokens.k = "num" /\ OwnerBalance * Scale < SlashedInTokens.v

\* C2 (as claimed): every returned list sums to the slashed amount within
\* RoundingTolerance wei
C2_Conservation ==
    ReturnedList =>
        LET sum == Total(callResult.list, Len(callResult.list))
        IN  /\ sum.k = "num"
            /\ sum.v - callAmount * Scale <= RoundingTolerance * Scale
            /\ callAmount * Scale - sum.v <= RoundingTolerance * Scale

C5_MissingOwner ==
    Returned /\ Queried /\ ~OwnerListed =>
        /\ callResult.error \in { "Operator doesn't have delegations",
                                  "Owner's delegation not found" }
        /\ callResult.list = << >>
C5_Witness ==
    /\ Returned /\ Queried /\ ~OwnerListed
    /\ Len(callOperator.delegations) = 2
    /\ callResult.error = "Owner's delegation not found"

\* the lists that hold the same delegations in another order
Reorderings(d) ==
    { [i \in 1 .. Len(d) |-> d[p[i]]] :
        p \in { q \in [1 .. Len(d) -> 1 .. Len(d)] :
                  \A i, j \in 1 .. Len(d) : i # j => q[i] # q[j] } }

\* C7: a returned list ascends by recipient, and the call gives the same
\* result for every order of the same delegations
C7_SortedDeterministic ==
    Returned /\ Queried =>
        /\ \A i, j \in 1 .. Len(callResult.list) :
              i < j => callResult.list[i].recipient < callResult.list[j].recipient
        /\ \A e \in Reorderings(callOperator.delegations) :
              calculateReimbursements(callAmount, callBlocks,
                  [callOperator EXCEPT !.delegations = e]) = callResult
C7_Witness ==
    /\ ReturnedList
    /\ Len(callResult.list) = 3
    /\ callOperator.delegations[1].id > callOperator.delegations[2].id
    /\ callOperator.delegations[2].id < callOperator.delegations[3].id

\* C9 (as claimed): every amount of a returned list that is a number is >= 0
\* and at most one wei above the exact share: the slashed amount in the full
\* case; in the shared case ownerBalance * valueWithoutEarnings / totalSupply
\* for the owner and balance * remaining / pool for another delegator
C9_Truncation ==
    ReturnedList =>
        /\ \A i \in 1 .. Len(callResult.list) :
              callResult.list[i].amount.k = "num" => callResult.list[i].amount.v >= 0
        /\ FullCase => AmountOf(callOperator.owner).v <= (callAmount + 1) * Scale
        /\ SharedCase /\ callOperator.operatorTokenTotalSupplyWei > 0
              /\ AmountOf(callOperator.owner).k = "num" =>
              LET ownerWei == AmountOf(callOperator.owner).v \div Scale
                  pool == callOperator.operatorTokenTotalSupplyWei - OwnerBalance
                  remaining == callAmount - ownerWei
              IN  /\ ownerWei <= callAmount
                  /\ ownerWei * callOperator.operatorTokenTotalSupplyWei
                        <= OwnerBalance * callOperator.valueWithoutEarnings
                           + callOperator.operatorTokenTotalSupplyWei
                  /\ \A d \in NonOwners :
                        AmountOf(d.id).k = "num" /\ pool > 0 =>
                            (AmountOf(d.id).v \div Scale) * pool
                                <= d.balance * remaining + pool

\* ------------------------------------------------------- claims on the run
Paged == pc \in {"main", "done", "failed"}
InWindow(e) == e.date >= timestampStartSec /\ e.date <= timestampEndSec

\* C1 (as claimed): with no minimum, getSlashingEvents returns every event of
\* the source dated within [timestampStartSec, timestampEndSec] exactly once
C1_Completeness ==
    Paged /\ minSlashingWei = 0 =>
        \A i \in 1 .. Len(source) :
            InWindow(source[i]) =>
                Cardinality({ j \in 1 .. Len(slashingEvents) : slashingEvents[j] = source[i] }) = 1

\* C6: no returned event is below the minimum, the events at or above it are
\* all kept, and each iteration stops or advances by the unfiltered events of
\* its window alone, whatever the minimum is
C6_MinimumFilter ==
    /\ [](Paged =>
            /\ \A j \in 1 .. Len(slashingEvents) : slashingEvents[j].amount >= minSlashingWei
            /\ \A i \in 1 .. Len(result) :
                  result[i].amount >= minSlashingWei =>
                      \E j \in 1 .. Len(slashingEvents) : slashingEvents[j] = result[i])
    /\ [][pc = "paging" =>
            LET window == WindowEvents(currentStart, timestampEndSec)
            IN  /\ requests' = Append(requests, << currentStart, timestampEndSec >>)
                /\ IF Len(window) < PAGE_SIZE
                   THEN pc' # "paging"
                   ELSE pc' = "paging" /\ currentStart' = window[PAGE_SIZE].date + 1]_vars
C6_Witness ==
    /\ Paged
    /\ minSlashingWei = 2
    /\ Len(requests) >= 2
    /\ Len(slashingEvents) < Len(result)
    /\ Len(slashingEvents) >= 1
    /\ result[1].amount < minSlashingWei

RECURSIVE Emitted(_)
\* the lines of the first n events, for the answers their queries were given
Emitted(n) ==
    IF n = 0 THEN << >>
    ELSE Emitted(n - 1)
         \o Lines(slashingEvents[n].id,
                  calculateReimbursements(slashingEvents[n].amount, answers[n].nBlocks,
                                          answers[n].operator).list)
Outcome(j) ==
    calculateReimbursements(slashingEvents[j].amount, answers[j].nBlocks, answers[j].operator)

\* C8: the events are handled one at a time in ascending date order; when the
\* pipeline of the event at position next throws, the run is over: the lines
\* of all events before it are written in full, no line of it or of a later
\* event is written, and nothing happens afterwards
C8_AbortIncremental ==
    /\ [](Paged =>
            /\ \A j \in 1 .. Len(slashingEvents) - 1 :
                  slashingEvents[j].date <= slashingEvents[j + 1].date
            /\ Len(answers) = IF pc = "failed" THEN next ELSE next - 1
            /\ \A j \in 1 .. next - 1 : Outcome(j).error = "none"
            /\ out = Emitted(next - 1)
            /\ \A l \in 1 .. Len(out) :
                  \E j \in 1 .. next - 1 : out[l].event = slashingEvents[j].id
            /\ pc = "failed" =>
                  /\ error = Outcome(next).error
                  /\ error \in { "Unexpected blocks", "Operator not found",
                                 "Operator doesn't have delegations",
                                 "Owner's delegation not found",
                                 "Reimbursements don't match slashed amount" }
            /\ pc = "done" => next = Len(slashingEvents) + 1 /\ error = "none")
    /\ [][pc # "failed" /\ next' \in {next, next + 1}]_vars
C8_Witness ==
    /\ pc = "failed"
    /\ error = "Reimbursements don't match slashed amount"
    /\ next = 3
    /\ Len(slashingEvents) = 4
    /\ Len(out) = 3

\* C10: the loop of getSlashingEvents ends; the lower bounds of its page
\* requests increase strictly, the upper bound is always timestampEndSec, and
\* the last request is the first whose window holds fewer than PAGE_SIZE events
C10_PaginationTerminates ==
    /\ <>(pc # "paging")
    /\ [][pc = "paging" /\ pc' = "paging" => currentStart' > currentStart]_vars
    /\ [][pc # "paging" => requests' = requests]_vars
    /\ [](\A i \in 1 .. Len(requests) :
            /\ requests[i][2] = timestampEndSec
            /\ i < Len(requests) =>
                  /\ requests[i][1] < requests[i + 1][1]
                  /\ Len(WindowEvents(requests[i][1], requests[i][2])) >= PAGE_SIZE)
    /\ [](Paged =>
            /\ Len(requests) >= 1
            /\ Len(WindowEvents(requests[Len(requests)][1], timestampEndSec)) < PAGE_SIZE)
C10_Witness ==
    /\ Paged
    /\ Len(requests) = 3
    /\ Len(result) = 4

====
